---- MODULE Spec2Model ----
(***************************************************************************)
(* ReviewsParser of parser_2gis/parser/parsers/reviews.py.                 *)
(*                                                                         *)
(* The driver (ReviewsParser.parse) is one sequential process, modelled    *)
(* with a program counter pc; every call it makes on the browsing session  *)
(* (ChromeRemote) is one step whose result is chosen by the environment.   *)
(* The page runs the injected XMLHttpRequest wrapper (_add_xhr_counter)    *)
(* concurrently with the driver.                                           *)
(*                                                                         *)
(* Abstractions of the input domain:                                       *)
(*  - a review record is an opaque value of Record;                        *)
(*  - the page markup read by get_internal_reviews is a record saying      *)
(*    whether each of the two regular expressions matches, whether the     *)
(*    normalised text is valid JSON with a 'review' key, and the ordered   *)
(*    mapping it holds (a sequence of records, in key insertion order);    *)
(*  - a response body is None, the empty string, text that is not JSON,    *)
(*    JSON without a 'reviews' key, or JSON with a 'reviews' array.        *)
(***************************************************************************)
EXTENDS Integers, Sequences, FiniteSets, TLC

\* ------------------------------------------------------------------ bounds

\* Longest 'reviews' array of one body, and longest bootstrap mapping.
MaxBatch == 2
\* Most records the pagination responses of one parse deliver in total.
MaxPaged == 3
\* The iteration counter `cycle` saturates here (cycle = MaxCycle: that many or more).
MaxCycle == 3
\* XMLHttpRequest objects of the page, and open() calls in total.
NumXhr == 1
MaxOpens == 2

\* ------------------------------------------------------------------ values

Record == {"ra", "rb"}

Min(a, b) == IF a < b THEN a ELSE b

RECURSIVE SeqsUpTo(_, _)
SeqsUpTo(S, n) ==
    IF n = 0 THEN {<<>>}
    ELSE LET shorter == SeqsUpTo(S, n - 1)
         IN  shorter \cup {Append(s, x) : s \in {t \in shorter : Len(t) = n - 1}, x \in S}

Batches == SeqsUpTo(Record, MaxBatch)

\* Document responses of the navigation (get_responses(...)[0]).
HTTP_NOT_FOUND == 404
DocumentResponses ==
    [mimeType : {"text/html", "application/json"}, status : {200, HTTP_NOT_FOUND}]
NoDocument == [mimeType |-> "", status |-> 0]

\* Responses matching _item_response_pattern, as wait_responses returns them;
\* NoResp stands for None.
NoResp == [present |-> FALSE, status |-> 0]
Responses == {[present |-> TRUE, status |-> s] : s \in {-1, 200}}

\* Response bodies, as get_response_body returns them.
Body(k, r) == [kind |-> k, reviews |-> r]
NoneBody == Body("none", <<>>)
Bodies ==
    {NoneBody, Body("empty", <<>>), Body("badjson", <<>>), Body("nokey", <<>>)}
        \cup {Body("json", r) : r \in Batches}

\* Page markup, as get_html returns it.
Html(m, w, j, r) == [marker |-> m, window |-> w, json |-> j, review |-> r]
Htmls ==
    {Html(FALSE, FALSE, "bad", <<>>), Html(TRUE, FALSE, "bad", <<>>),
     Html(TRUE, TRUE, "bad", <<>>), Html(TRUE, TRUE, "nokey", <<>>)}
        \cup {Html(TRUE, TRUE, "ok", r) : r \in Batches}
NoHtml == Html(FALSE, FALSE, "unread", <<>>)

\* Python values that may be None: internal_reviews.
NoneValue == [isNone |-> TRUE, items |-> <<>>]
Mapping(items) == [isNone |-> FALSE, items |-> items]

Xhr == 1..NumXhr
\* An XMLHttpRequest object: its readyState (0 unsent, 1 opened, 4 done), the
\* readystatechange listeners the wrapper has added to it, and whether the URL
\* it was last opened with matches the 2GIS pattern.
NewXhr == [readyState |-> 0, listeners |-> 0, matching |-> FALSE]

VARIABLES
    \* the driver: position in parse() and its locals
    pc, document_response, reviews, get_init_html, internal_reviews, resp, doc,
    \* parser options
    skip_404_response, delay_between_clicks,
    \* how parse() ended, and what it returned
    outcome, retval,
    \* the page: window.openHTTPs and the XMLHttpRequest objects
    openHTTPs, openHTTPsDefined, xhr, opens,
    \* history (not read by the driver)
    calls, iterOps, cycle, html, delivered, pagesGot, stops,
    missed, missReviews, quiesceTimedOut, extractCount, sidebarFound

driverVars == <<pc, document_response, reviews, get_init_html, internal_reviews, resp, doc,
                skip_404_response, delay_between_clicks, outcome, retval>>
pageVars == <<openHTTPs, openHTTPsDefined, xhr, opens>>
histVars == <<calls, iterOps, cycle, html, delivered, pagesGot, stops,
              missed, missReviews, quiesceTimedOut, extractCount, sidebarFound>>
vars == <<driverVars, pageVars, histVars>>


\* ------------------------------------------------------ pure parts of the code

\* Python truth value of internal_reviews (None and the empty dict are false).
TruthyMapping(m) == ~m.isNone /\ Len(m.items) > 0

\* Python truth value of a body (None and the empty string are false).
TruthyBody(d) == d.kind \notin {"none", "empty"}

Returned(v) == [raised |-> FALSE, exc |-> "", value |-> v]
Raised(e, v) == [raised |-> TRUE, exc |-> e, value |-> v]

\* get_internal_reviews: json_match[1] and reviews_match[1] subscript the result
\* of re.search, which is None when the pattern is absent; only json.loads and
\* the ['review'] lookup are inside the try.
get_internal_reviews(h) ==
    IF ~h.marker THEN Raised("TypeError", NoneValue)
    ELSE IF ~h.window THEN Raised("TypeError", NoneValue)
    ELSE IF h.json = "ok" THEN Returned(Mapping(h.review))
    ELSE Returned(NoneValue)

\* Mutant: the 404 policy is applied before the content type is asserted.
check_document_status_first(r, skip) ==
    IF r.status = HTTP_NOT_FOUND /\ skip THEN "returned_none"
    ELSE IF r.mimeType # "text/html" THEN "AssertionError"
    ELSE "running"

\* Mutant: the 404 branch returns whatever skip_404_response says.
check_document_ignores_option(r, skip) ==
    IF r.mimeType # "text/html" THEN "AssertionError"
    ELSE IF r.status = HTTP_NOT_FOUND THEN "returned_none"
    ELSE "running"

\* The entry gate after the document response was obtained: the assertion on
\* the content type, then the 404 policy.  The value is the outcome of parse().
check_document(r, skip) ==
    IF r.mimeType # "text/html" THEN "AssertionError"
    ELSE IF r.status = HTTP_NOT_FOUND /\ skip THEN "returned_none"
    ELSE "running"

\* Mutant: the wait raises when its timeout elapses.
wait_until_finished_raises(ret) == Raised("TimeoutError", ret)

\* common.wait_until_finished when its timeout elapses, `ret` being the last
\* value the polled function returned: the wait gives up and hands `ret` back.
wait_until_finished_timeout(ret) == Returned(ret)

\* window.openHTTPs == 0, evaluated in the page (undefined == 0 is false).
openHTTPs_is_zero(defined, n) == defined /\ n = 0

\* What parse() does with the value of _wait_requests_finished(): nothing.
after_wait_requests_finished(finished) == "loop_head"

\* self._get_sidebar()[0]
first_node(nodes) ==
    IF Len(nodes) = 0 THEN Raised("IndexError", "") ELSE Returned(nodes[1])

\* Mutant: a negative status does not keep the body from being fetched.
fetches_body_any_status(r) == r.present

\* if resp and resp['status'] >= 0: is the body fetched?
fetches_body(r) == r.present /\ r.status >= 0

\* Mutant: when no response came, the driver scrolls and waits once more.
after_wait_responses_retries(r) ==
    IF fetches_body(r) THEN "get_body"
    ELSE IF ~r.present THEN "scroll"
    ELSE "merge"

\* Where load_reviews goes on after wait_responses: to the body fetch, or
\* straight to its return with data = None.
after_wait_responses(r) == IF fetches_body(r) THEN "get_body" ELSE "merge"

\* Mutant: the loop over the mapping stops after its first entry.
merge_internal_first_only(rs, m) ==
    IF TruthyMapping(m) THEN Append(rs, m.items[1]) ELSE rs

\* if internal_reviews: for user_id in internal_reviews: reviews.append(...)
merge_internal(rs, m) == IF TruthyMapping(m) THEN rs \o m.items ELSE rs

\* Mutant: the page's records are put in front of the records already held.
merge_doc_prepends(rs, d) ==
    IF ~TruthyBody(d) THEN Returned(rs)
    ELSE IF d.kind = "badjson" THEN Raised("JSONDecodeError", rs)
    ELSE IF d.kind = "nokey" THEN Raised("KeyError", rs)
    ELSE Returned(d.reviews \o rs)

\* if doc: for review in json.loads(doc)['reviews']: reviews.append(review)
merge_doc(rs, d) ==
    IF ~TruthyBody(d) THEN Returned(rs)
    ELSE IF d.kind = "badjson" THEN Raised("JSONDecodeError", rs)
    ELSE IF d.kind = "nokey" THEN Raised("KeyError", rs)
    ELSE Returned(rs \o d.reviews)

\* Mutant: the page is merged before the initial records.
merge_cycle_page_first(rs, m, d) ==
    LET paged == merge_doc(rs, d)
    IN  [paged EXCEPT !.value = merge_internal(paged.value, m)]

\* One pass of the loop body after load_reviews() returned: the two merges.
merge_cycle(rs, m, d) == merge_doc(merge_internal(rs, m), d)

\* Mutant: if doc is None, which lets an empty body through.
loop_exits_on_none_only(d) == d.kind = "none"

\* Mutant: the loop also ends after a page that held no records.
loop_exits_on_no_records(d) == ~TruthyBody(d) \/ d.reviews = <<>>

\* Mutant: the loop ends on an empty body only, not on a missing one.
loop_exits_on_empty_only(d) == d.kind = "empty"

\* if not doc: stop and return
loop_exits(d) == ~TruthyBody(d)

\* Mutant: the session is left running at the end of the loop.
stop_omitted == FALSE

\* self._chrome_remote.stop(), in front of return reviews.
stop_before_return == TRUE

\* Mutant: return reviews or None.
return_reviews_or_none(rs) ==
    [how |-> IF rs = <<>> THEN "returned_none" ELSE "returned_list", value |-> rs]

\* return reviews: how parse() ends at the end of the loop, and with what.
return_reviews(rs) == [how |-> "returned_list", value |-> rs]

\* Mutant: internal_reviews is initialised once, outside the loop.
keep_internal_reviews(m) == m

\* internal_reviews = None, at the top of every iteration.
reset_internal_reviews(m) == NoneValue

\* Mutant: the flag is left as it was, so every iteration extracts again.
keep_get_init_html(flag) == flag

\* get_init_html = False, after the extraction.
clear_get_init_html(flag) == FALSE

\* ------------------------------------------------------------------ state

Init ==
    /\ pc = "navigate"
    /\ document_response = NoDocument
    /\ reviews = <<>>
    /\ get_init_html = TRUE
    /\ internal_reviews = NoneValue
    /\ resp = NoResp
    /\ doc = NoneBody
    /\ skip_404_response \in BOOLEAN
    /\ delay_between_clicks \in {0, 1}
    /\ outcome = "running"
    /\ retval = <<>>
    /\ openHTTPs = 0
    /\ openHTTPsDefined = FALSE
    /\ xhr = [x \in Xhr |-> NewXhr]
    /\ opens = 0
    /\ calls = {}
    /\ iterOps = <<>>
    /\ cycle = 0
    /\ html = NoHtml
    /\ delivered = <<>>
    /\ pagesGot = 0
    /\ stops = 0
    /\ missed = FALSE
    /\ missReviews = <<>>
    /\ quiesceTimedOut = FALSE
    /\ extractCount = 0
    /\ sidebarFound = TRUE

Call(op) == calls' = calls \cup {op}
Op(op) == /\ Call(op)
          /\ iterOps' = Append(iterOps, op)

\* parse() ends: by a return or by an exception leaving it.
Finish(how, value) ==
    /\ pc' = "done"
    /\ outcome' = how
    /\ retval' = value

\* ------------------------------------------------------------------ the page

PageAlive == pc \in {"get_responses", "check_doc", "quiescence"}

\* XMLHttpRequest.prototype.open as wrapped by the start script.
XhrOpen(x, matches) ==
    /\ PageAlive
    /\ opens < MaxOpens
    /\ opens' = opens + 1
    /\ IF matches
       THEN /\ openHTTPsDefined' = TRUE
            /\ openHTTPs' = IF ~openHTTPsDefined THEN 1 ELSE openHTTPs + 1
            /\ xhr' = [xhr EXCEPT ![x] = [readyState |-> 1, listeners |-> @.listeners + 1,
                                          matching |-> TRUE]]
       ELSE /\ UNCHANGED <<openHTTPsDefined, openHTTPs>>
            /\ xhr' = [xhr EXCEPT ![x] = [readyState |-> 1, listeners |-> @.listeners,
                                          matching |-> FALSE]]
    /\ UNCHANGED <<driverVars, histVars>>

\* The request of x reaches readyState 4: every listener the wrapper added to x
\* runs window.openHTTPs--.
XhrDone(x) ==
    /\ PageAlive
    /\ xhr[x].readyState = 1
    /\ xhr' = [xhr EXCEPT ![x].readyState = 4]
    /\ openHTTPs' = openHTTPs - xhr[x].listeners
    /\ UNCHANGED <<openHTTPsDefined, opens, driverVars, histVars>>

\* ------------------------------------------------------------------ parse()

Navigate ==
    /\ pc = "navigate"
    /\ pc' = "get_responses"
    /\ Call("navigate")
    /\ UNCHANGED <<document_response, reviews, get_init_html, internal_reviews, resp, doc,
                   skip_404_response, delay_between_clicks, outcome, retval>>
    /\ UNCHANGED <<pageVars, iterOps, cycle, html, delivered, pagesGot, stops,
                   missed, missReviews, quiesceTimedOut, extractCount, sidebarFound>>

\* responses = get_responses(timeout=5); if not responses: return
GetResponses ==
    /\ pc = "get_responses"
    /\ Call("get_responses")
    /\ \/ /\ Finish("returned_none", <<>>)
          /\ UNCHANGED document_response
       \/ \E r \in DocumentResponses :
            /\ document_response' = r
            /\ pc' = "check_doc"
            /\ UNCHANGED <<outcome, retval>>
    /\ UNCHANGED <<reviews, get_init_html, internal_reviews, resp, doc,
                   skip_404_response, delay_between_clicks>>
    /\ UNCHANGED <<pageVars, iterOps, cycle, html, delivered, pagesGot, stops,
                   missed, missReviews, quiesceTimedOut, extractCount, sidebarFound>>

CheckDocument ==
    /\ pc = "check_doc"
    /\ LET how == check_document(document_response, skip_404_response)
       IN  IF how = "running"
           THEN /\ pc' = "quiescence"
                /\ UNCHANGED <<outcome, retval>>
           ELSE Finish(how, <<>>)
    /\ UNCHANGED <<document_response, reviews, get_init_html, internal_reviews, resp, doc,
                   skip_404_response, delay_between_clicks>>
    /\ UNCHANGED <<pageVars, histVars>>

\* self._wait_requests_finished(): the script is polled until it is true or the
\* wait gives up.  A poll that finds it false and goes on polling changes nothing.
\* The page is followed up to here, the only place the driver reads it.
WaitRequestsFinished ==
    /\ pc = "quiescence"
    /\ Call("execute_script")
    /\ LET finished == openHTTPs_is_zero(openHTTPsDefined, openHTTPs)
           got == IF finished THEN Returned(TRUE) ELSE wait_until_finished_timeout(FALSE)
       IN  /\ quiesceTimedOut' = ~finished
           /\ IF got.raised
              THEN Finish(got.exc, <<>>)
              ELSE /\ pc' = after_wait_requests_finished(got.value)
                   /\ UNCHANGED <<outcome, retval>>
    /\ openHTTPs' = 0
    /\ openHTTPsDefined' = FALSE
    /\ xhr' = [x \in Xhr |-> NewXhr]
    /\ opens' = 0
    /\ UNCHANGED <<document_response, reviews, get_init_html, internal_reviews, resp, doc,
                   skip_404_response, delay_between_clicks>>
    /\ UNCHANGED <<iterOps, cycle, html, delivered, pagesGot, stops,
                   missed, missReviews, extractCount, sidebarFound>>

\* while True: internal_reviews = None; if get_init_html: ...
\* doc is not read before load_reviews() assigns it again: it is None meanwhile.
LoopHead ==
    /\ pc = "loop_head"
    /\ internal_reviews' = reset_internal_reviews(internal_reviews)
    /\ pc' = IF get_init_html THEN "extract" ELSE "delay"
    /\ cycle' = Min(cycle + 1, MaxCycle)
    /\ iterOps' = <<>>
    /\ doc' = NoneBody
    /\ UNCHANGED <<document_response, reviews, get_init_html, resp,
                   skip_404_response, delay_between_clicks, outcome, retval>>
    /\ UNCHANGED <<pageVars, calls, html, delivered, pagesGot, stops,
                   missed, missReviews, quiesceTimedOut, extractCount, sidebarFound>>

\* internal_reviews = get_internal_reviews(); get_init_html = False
GetInternalReviews ==
    /\ pc = "extract"
    /\ Op("get_html")
    /\ extractCount' = extractCount + 1
    /\ \E h \in Htmls :
         /\ html' = h
         /\ LET got == get_internal_reviews(h)
            IN  IF got.raised
                THEN /\ Finish(got.exc, <<>>)
                     /\ UNCHANGED <<internal_reviews, get_init_html>>
                ELSE /\ internal_reviews' = got.value
                     /\ get_init_html' = clear_get_init_html(get_init_html)
                     /\ pc' = "delay"
                     /\ UNCHANGED <<outcome, retval>>
    /\ UNCHANGED <<document_response, reviews, resp, doc,
                   skip_404_response, delay_between_clicks>>
    /\ UNCHANGED <<pageVars, cycle, delivered, pagesGot, stops,
                   missed, missReviews, quiesceTimedOut, sidebarFound>>

\* load_reviews: if delay_between_clicks: wait(...)
Delay ==
    /\ pc = "delay"
    /\ pc' = "sidebar"
    /\ IF delay_between_clicks # 0
       THEN Op("wait")
       ELSE UNCHANGED <<calls, iterOps>>
    /\ UNCHANGED <<document_response, reviews, get_init_html, internal_reviews, resp, doc,
                   skip_404_response, delay_between_clicks, outcome, retval>>
    /\ UNCHANGED <<pageVars, cycle, html, delivered, pagesGot, stops,
                   missed, missReviews, quiesceTimedOut, extractCount, sidebarFound>>

\* load_reviews: sidebar = self._get_sidebar()[0]
GetSidebar ==
    /\ pc = "sidebar"
    /\ Op("get_document")
    /\ \E nodes \in {<<"div">>, <<>>} :
         LET got == IF Len(nodes) > 0 THEN Returned(nodes)
                    ELSE wait_until_finished_timeout(nodes)
             node == first_node(got.value)
         IN  /\ sidebarFound' = (Len(nodes) > 0)
             /\ IF got.raised THEN Finish(got.exc, <<>>)
                ELSE IF node.raised THEN Finish(node.exc, <<>>)
                ELSE /\ pc' = "scroll"
                     /\ UNCHANGED <<outcome, retval>>
    /\ UNCHANGED <<document_response, reviews, get_init_html, internal_reviews, resp, doc,
                   skip_404_response, delay_between_clicks>>
    /\ UNCHANGED <<pageVars, cycle, html, delivered, pagesGot, stops,
                   missed, missReviews, quiesceTimedOut, extractCount>>

\* load_reviews: perform_scroll(sidebar)
PerformScroll ==
    /\ pc = "scroll"
    /\ pc' = "wait_resp"
    /\ Op("perform_scroll")
    /\ UNCHANGED <<document_response, reviews, get_init_html, internal_reviews, resp, doc,
                   skip_404_response, delay_between_clicks, outcome, retval>>
    /\ UNCHANGED <<pageVars, cycle, html, delivered, pagesGot, stops,
                   missed, missReviews, quiesceTimedOut, extractCount, sidebarFound>>

\* load_reviews: resp = wait_responses(pattern); data = None; if resp and ...
\* resp is a local of load_reviews: it is dropped once its body was fetched.
WaitResponses ==
    /\ pc = "wait_resp"
    /\ Op("wait_responses")
    /\ \E r \in Responses \cup {NoResp} :
         /\ missed' = (missed \/ ~r.present)
         /\ missReviews' = IF ~r.present THEN reviews ELSE missReviews
         /\ resp' = r
         /\ pc' = after_wait_responses(r)
         /\ doc' = NoneBody
    /\ UNCHANGED <<document_response, reviews, get_init_html, internal_reviews,
                   skip_404_response, delay_between_clicks, outcome, retval>>
    /\ UNCHANGED <<pageVars, cycle, html, delivered, pagesGot, stops,
                   quiesceTimedOut, extractCount, sidebarFound>>

\* load_reviews: data = get_response_body(resp, timeout=10); return data
GetResponseBody ==
    /\ pc = "get_body"
    /\ Op("get_response_body")
    /\ \E b \in Bodies :
         /\ Len(delivered) + Len(b.reviews) <= MaxPaged
         /\ doc' = b
         /\ delivered' = delivered \o b.reviews
         /\ pagesGot' = IF TruthyBody(b) THEN Min(pagesGot + 1, MaxCycle) ELSE pagesGot
    /\ pc' = "merge"
    /\ resp' = NoResp
    /\ UNCHANGED <<document_response, reviews, get_init_html, internal_reviews,
                   skip_404_response, delay_between_clicks, outcome, retval>>
    /\ UNCHANGED <<pageVars, cycle, html, stops,
                   missed, missReviews, quiesceTimedOut, extractCount, sidebarFound>>

\* The rest of the loop body: merge the initial records, merge the page, and
\* leave through stop() and return when there was no page.
Merge ==
    /\ pc = "merge"
    /\ LET got == merge_cycle(reviews, internal_reviews, doc)
       IN  /\ reviews' = got.value
           /\ IF got.raised
              THEN /\ Finish(got.exc, <<>>)
                   /\ UNCHANGED <<calls, stops>>
              ELSE IF loop_exits(doc)
              THEN /\ IF stop_before_return
                      THEN Call("stop") /\ stops' = stops + 1
                      ELSE UNCHANGED <<calls, stops>>
                   /\ Finish(return_reviews(got.value).how, return_reviews(got.value).value)
              ELSE /\ pc' = "loop_head"
                   /\ UNCHANGED <<calls, stops, outcome, retval>>
    /\ UNCHANGED <<document_response, get_init_html, internal_reviews, resp, doc,
                   skip_404_response, delay_between_clicks>>
    /\ UNCHANGED <<pageVars, iterOps, cycle, html, delivered, pagesGot,
                   missed, missReviews, quiesceTimedOut, extractCount, sidebarFound>>

Driver ==
    \/ Navigate
    \/ GetResponses
    \/ CheckDocument
    \/ WaitRequestsFinished
    \/ LoopHead
    \/ GetInternalReviews
    \/ Delay
    \/ GetSidebar
    \/ PerformScroll
    \/ WaitResponses
    \/ GetResponseBody
    \/ Merge

Page ==
    \/ \E x \in Xhr, m \in BOOLEAN : XhrOpen(x, m)
    \/ \E x \in Xhr : XhrDone(x)

Next == Driver \/ Page

Spec == Init /\ [][Next]_vars

\* Every call of the driver is a bounded wait, so the driver always takes its
\* next step.
FairSpec == Spec /\ WF_vars(Driver)

\* ------------------------------------------------------------------ claims

\* The records the bootstrap blob of the markup holds, in blob order (none when
\* the markup has no well-formed blob).
BlobRecords(h) ==
    IF h.marker /\ h.window /\ h.json = "ok" THEN h.review ELSE <<>>

IsPrefix(s, t) == Len(s) <= Len(t) /\ SubSeq(t, 1, Len(s)) = s

\* C1 as stated: parse() terminates in every behaviour of the page and the session.
C1_ParseTerminates == <>(pc = "done")

\* C1, amended: parse() terminates unless the page goes on delivering a
\* non-empty body in cycle after cycle: every wait is bounded, and a cycle in
\* which no body is obtained ends parse() in that same cycle.
C1_TerminatesUnlessPagesKeepComing ==
    <>(pc = "done") \/ []<>(pc = "merge" /\ TruthyBody(doc))

C1_Witness == pc = "done" /\ missed /\ outcome = "returned_list" /\ pagesGot = 2

Exceptions == {"AssertionError", "TypeError", "IndexError", "TimeoutError",
               "JSONDecodeError", "KeyError"}

InLoop == pc \in {"loop_head", "extract", "delay", "sidebar", "scroll",
                  "wait_resp", "get_body", "merge"}

BeforeGate == pc \in {"navigate", "get_responses", "check_doc"}

\* The markup makes InitialStateExtractor fail: a marker is absent, or the
\* normalised text is not valid JSON.
ExtractorFails(h) == ~h.marker \/ ~h.window \/ h.json = "bad"

\* C2: when the extractor fails on the markup it read, it raises nothing, and
\* what parse() returns is every record of the pagination cycles.
C2_ExtractorFailureIsGraceful ==
    (extractCount = 1 /\ ExtractorFails(html)) =>
        /\ outcome # "TypeError"
        /\ (outcome = "returned_list" => retval = delivered)

\* C3: in the returned sequence the records of the bootstrap blob come first,
\* in front of every record of the first and of every later pagination cycle.
C3_InitialRecordsFirst ==
    outcome = "returned_list" => retval = BlobRecords(html) \o delivered

C3_Witness ==
    /\ outcome = "returned_list"
    /\ Len(BlobRecords(html)) = 1
    /\ Len(delivered) = 1
    /\ retval[1] # retval[2]

\* C4: a cycle in which the sidebar is not located does not end parse() with an
\* error.
C4_MissingSidebarIsNotFatal == ~sidebarFound => outcome \notin Exceptions

C6_NotFoundPolicy ==
    (~BeforeGate /\ document_response.mimeType = "text/html"
                 /\ document_response.status = HTTP_NOT_FOUND) =>
        IF skip_404_response
        THEN /\ pc = "done"
             /\ outcome = "returned_none"
             /\ calls = {"navigate", "get_responses"}
             /\ extractCount = 0
        ELSE /\ outcome # "returned_none"
             /\ pc = "quiescence" \/ "execute_script" \in calls

C6_Witness ==
    /\ pc = "done"
    /\ document_response.status = HTTP_NOT_FOUND
    /\ document_response.mimeType = "text/html"
    /\ skip_404_response
    /\ outcome = "returned_none"

\* C7: when the first cycle's wait observes no response and the bootstrap blob
\* is valid, parse() returns exactly the blob's records, in blob order.
C7_OnlyBootstrapRecords ==
    (pc = "done" /\ missed /\ cycle = 1 /\ html.json = "ok") =>
        /\ outcome = "returned_list"
        /\ retval = html.review

C7_Witness ==
    /\ pc = "done" /\ missed /\ cycle = 1 /\ html.json = "ok"
    /\ Len(html.review) = 2
    /\ html.review[1] # html.review[2]

\* C8: with an empty bootstrap blob, k cycles that each deliver a body and a
\* cycle k+1 whose wait observes no response, parse() returns the bodies'
\* reviews arrays concatenated in cycle order, cycle k+1 is the last one, and
\* the session is stopped.
C8_PagedRecordsInCycleOrder ==
    (pc = "done" /\ missed /\ html.json = "ok" /\ html.review = <<>>) =>
        /\ outcome = "returned_list"
        /\ retval = delivered
        /\ cycle < MaxCycle => cycle = pagesGot + 1
        /\ stops = 1

C8_Witness ==
    /\ pc = "done" /\ missed /\ html.json = "ok" /\ html.review = <<>>
    /\ pagesGot = 2
    /\ Len(retval) = 3
    /\ retval[1] # retval[3]

\* C9: without a document response parse() returns none and raises nothing;
\* with a document, no bootstrap records and no pagination response it returns
\* the empty sequence, which is not none.
C9_NoneVersusEmpty ==
    /\ (pc = "done" /\ document_response = NoDocument) => outcome = "returned_none"
    /\ (pc = "done" /\ missed /\ cycle = 1 /\ BlobRecords(html) = <<>>) =>
           /\ outcome = "returned_list"
           /\ retval = <<>>

C9_Witness ==
    /\ pc = "done" /\ missed /\ cycle = 1 /\ BlobRecords(html) = <<>>
    /\ outcome = "returned_list"
    /\ document_response.status = 200

\* C10 as stated: from the moment a wait observes no response, ResultSet stays
\* as it was, and it is what parse() returns.
C10_NoMutationAfterMiss ==
    missed =>
        /\ reviews = missReviews
        /\ outcome = "returned_list" => retval = missReviews

\* What the first cycle still appends after its wait: the initial records.
InitialRecordsOfCycle == IF cycle = 1 THEN BlobRecords(html) ELSE <<>>

\* C10, amended: after a wait observed no response, parse() ends in that cycle
\* and returns ResultSet as it was at the observation, followed, in the first
\* cycle only, by the records of the bootstrap blob; no paginated record is
\* added.
C10_OnlyInitialRecordsAfterMiss ==
    missed =>
        /\ pc \in {"merge", "done"}
        /\ pc = "merge" => reviews = missReviews
        /\ pc = "done" =>
              /\ outcome = "returned_list"
              /\ reviews = missReviews \o InitialRecordsOfCycle
              /\ retval = reviews

C10_Witness ==
    /\ pc = "done" /\ missed /\ cycle = 2
    /\ Len(BlobRecords(html)) = 1
    /\ Len(retval) = 3

\* C11: window.openHTTPs is never negative, whatever requests the page opens
\* and completes, an XMLHttpRequest object opened more than once included.
C11_CounterNeverNegative == openHTTPs >= 0

\* No request to the target domain has been opened on any object.
NoMatchingOpen == \A x \in Xhr : xhr[x].listeners = 0

\* C12: while the page has opened no request to the target domain, the query
\* the driver polls (window.openHTTPs == 0) is true, so its first poll reports
\* settled.
C12_NoRequestsMeansSettled ==
    (pc = "quiescence" /\ NoMatchingOpen) =>
        openHTTPs_is_zero(openHTTPsDefined, openHTTPs)

\* C13: an open() changes the counter by +1 when its URL matches and not at all
\* otherwise; a request reaching readyState 4 changes it by -1 when the URL it
\* was opened with matches and not at all otherwise.
C13_OnlyMatchingRequestsCount ==
    [][/\ \A x \in Xhr, m \in BOOLEAN :
            XhrOpen(x, m) => openHTTPs' = openHTTPs + (IF m THEN 1 ELSE 0)
       /\ \A x \in Xhr :
            XhrDone(x) => openHTTPs' = openHTTPs - (IF xhr[x].matching THEN 1 ELSE 0)]_vars

\* The records a body contributes: its 'reviews' array when it is JSON with one.
PageRecords(d) == IF d.kind = "json" THEN d.reviews ELSE <<>>

\* C14: the extractor runs once, in the first cycle and before any scroll; the
\* loop runs it in its first cycle and in no other; and what a later cycle
\* appends is the records of that cycle's body and nothing else.
C14_ExtractorRunsOnceInFirstCycle ==
    [][/\ extractCount' # extractCount =>
              /\ extractCount = 0
              /\ extractCount' = 1
              /\ cycle = 1
              /\ "perform_scroll" \notin calls
       /\ (pc = "loop_head" /\ pc' # pc) => ((pc' = "extract") <=> (cycle' = 1))
       /\ (pc = "merge" /\ pc' # pc /\ cycle >= 2) =>
              reviews' = reviews \o PageRecords(doc)]_vars

C14_Witness ==
    /\ pc = "done" /\ outcome = "returned_list"
    /\ cycle >= 2
    /\ extractCount = 1
    /\ Len(BlobRecords(html)) = 1
    /\ Len(delivered) = 2

LastOp == IF iterOps = <<>> THEN "" ELSE iterOps[Len(iterOps)]

\* C15: a cycle whose body fetch yields nothing (None or an empty body) ends the
\* loop as a cycle without a response does: the session is stopped and parse()
\* returns the records accumulated so far; the loop goes round again only after
\* a non-empty body.
C15_EmptyBodyEndsLoop ==
    /\ (pc = "done" /\ LastOp = "get_response_body" /\ ~TruthyBody(doc)) =>
           /\ outcome = "returned_list"
           /\ retval = BlobRecords(html) \o delivered
           /\ stops = 1
    /\ (pc = "loop_head" /\ cycle >= 1) => TruthyBody(doc)

C15_Witness ==
    /\ pc = "done" /\ LastOp = "get_response_body" /\ doc.kind = "none"
    /\ cycle >= 2
    /\ Len(retval) = 2

\* C16: a document response that is not text/html ends parse() with an
\* AssertionError after the navigation and the document-response call only,
\* whatever its status and whatever skip_404_response says.
C16_ContentTypeAssertedFirst ==
    (~BeforeGate /\ document_response # NoDocument
                 /\ document_response.mimeType # "text/html") =>
        /\ pc = "done"
        /\ outcome = "AssertionError"
        /\ calls = {"navigate", "get_responses"}
        /\ extractCount = 0

C16_Witness ==
    /\ pc = "done" /\ outcome = "AssertionError"
    /\ document_response.status = HTTP_NOT_FOUND
    /\ skip_404_response

\* The calls of one run of load_reviews, in the order of its code.
LoadOps ==
    (IF delay_between_clicks # 0 THEN <<"wait">> ELSE <<>>)
        \o <<"get_document", "perform_scroll", "wait_responses", "get_response_body">>

\* The calls of the current iteration that load_reviews made: all of them but
\* the extraction's get_html, which comes first in the first iteration.
LoadOpsDone ==
    IF iterOps # <<>> /\ iterOps[1] = "get_html" THEN Tail(iterOps) ELSE iterOps

\* C17: what the driver has called in the current iteration is an initial part
\* of: the delay (when configured), the sidebar search, the scroll, the
\* response wait, the body fetch; so each is called at most once, in this
\* order, and none is repeated after an absent result.
C17_OneAttemptPerIteration ==
    /\ IsPrefix(LoadOpsDone, LoadOps)
    /\ (iterOps # <<>> /\ iterOps[1] = "get_html") => cycle = 1

C17_Witness ==
    /\ pc = "merge" /\ cycle = 2
    /\ iterOps = <<"wait", "get_document", "perform_scroll", "wait_responses",
                   "get_response_body">>

\* C18: the session is stopped once, on the exit that returns ResultSet at the
\* end of the loop, and on no other exit and at no other time.
C18_StoppedOnlyAtNoPage ==
    /\ stops = (IF outcome = "returned_list" THEN 1 ELSE 0)
    /\ ("stop" \in calls) <=> (outcome = "returned_list")

C18_Witness == pc = "done" /\ outcome = "returned_list" /\ stops = 1 /\ Len(retval) = 1

\* C19: after a response with a negative status the body is not fetched, the
\* loop ends in that cycle, the session is stopped and parse() returns the
\* records accumulated so far.
C19_NegativeStatusEndsLoop ==
    (resp.present /\ resp.status < 0) =>
        /\ pc \in {"merge", "done"}
        /\ LastOp = "wait_responses"
        /\ doc = NoneBody
        /\ pc = "done" =>
              /\ outcome = "returned_list"
              /\ retval = BlobRecords(html) \o delivered
              /\ stops = 1

C19_Witness ==
    /\ pc = "done" /\ resp.present /\ resp.status < 0
    /\ cycle >= 2
    /\ Len(retval) = 2

\* A cycle is being merged whose body is JSON with an empty 'reviews' array.
MergingEmptyPage == pc = "merge" /\ doc.kind = "json" /\ doc.reviews = <<>>

\* C20 as stated: a cycle whose body has an empty 'reviews' array leaves
\* ResultSet unchanged and is followed by another cycle, and the loop ends only
\* in a cycle without a body.
C20_EmptyPageLeavesResultSet ==
    [][/\ (MergingEmptyPage /\ pc' # pc) =>
              /\ reviews' = reviews
              /\ pc' = "loop_head"
       /\ (pc = "merge" /\ pc' = "done" /\ outcome' = "returned_list") =>
              ~TruthyBody(doc)]_vars

\* C20, amended: such a cycle adds no record of its own (in the first cycle the
\* records of the bootstrap blob are still appended) and is followed by another
\* cycle, and the loop ends only in a cycle without a body.
C20_EmptyPageAddsNothingOfItsOwn ==
    [][/\ (MergingEmptyPage /\ pc' # pc) =>
              /\ reviews' = reviews \o InitialRecordsOfCycle
              /\ pc' = "loop_head"
       /\ (pc = "merge" /\ pc' = "done" /\ outcome' = "returned_list") =>
              ~TruthyBody(doc)]_vars

C20_Witness ==
    /\ pc = "loop_head" /\ cycle = 2
    /\ doc.kind = "json" /\ doc.reviews = <<>>
    /\ Len(reviews) = 2

====
